---- MODULE Spec2Model ----
(***************************************************************************)
(* The price monitor of market-checker (container/PriceMonitor.ts with its *)
(* DatabaseClient, ContractClient and PythClient): the watch registry      *)
(* monitoringEvents, the in-flight set processingEvents, the round-robin   *)
(* key cursor, the price-update dispatch, the safety-net sweep and the     *)
(* periodic refresh.  The monitor runs on one JavaScript event loop: every *)
(* `await` is a point where another invocation may run, and the code       *)
(* between two awaits is one atomic step.                                  *)
(***************************************************************************)
EXTENDS Integers, Sequences, FiniteSets, TLC

\* ------------------------------------------------------------------ bounds

\* The clock runs from 0 to MaxTime.
MaxTime == 2
\* What the environment does to the monitor over a whole run: timers that
\* fire, price samples delivered and external calls that fail.
MaxInputs == 3
\* The trigger prices the evaluator on its own is tried with run from 1 to
\* MaxTrigger.
MaxTrigger == 2
\* The environment of the key pool on its own may set PRIVATE_KEY_0 to
\* PRIVATE_KEY_(MaxKeys-1), and MaxCalls calls of getNextKeyIndex are followed.
MaxKeys == 3
MaxCalls == 4
\* The feed client on its own handles up to MaxErrors connection errors, with
\* up to MaxTimers reconnect timers set and up to MaxPending calls of
\* getPriceUpdatesStream awaited at a time.
MaxErrors == 12
MaxTimers == 2
MaxPending == 2
\* The run of stop() and start() is followed for MaxSweeps calls of the sweep
\* timer.
MaxSweeps == 2

\* PythClient.maxReconnectAttempts and PythClient.reconnectInterval (ms).
maxReconnectAttempts == 10
reconnectInterval == 5000

\* ----------------------------------------------------- the world's content

Entities == {1, 2}
Feeds == {"0xf1", "0xf2"}
\* The dispatch invocations that may be pending at once, and the sweep.
HandlerSlots == <<"h1", "h2">>
Handlers == { HandlerSlots[i] : i \in 1..Len(HandlerSlots) }
Sweepers == {"s1"}
Procs == Handlers \cup Sweepers

\* The rows of the Store: the fields no code of the monitor writes.
TriggerPrice(e) == 2
Operator(e) == IF e = 1 THEN "GT" ELSE "LT"
EndTime(e) == 1

\* Price samples as the feed delivers them: the mantissa, the exponent and
\* whether the binary proof (vaa) came with it.
Samples ==
    { [price |-> m[1], expo |-> m[2], vaa |-> v] :
        m \in {<<2, 0>>, <<25, -1>>}, v \in BOOLEAN } \
    { [price |-> 25, expo |-> -1, vaa |-> FALSE] }
NoUpdate == [price |-> 0, expo |-> 0, vaa |-> FALSE]

VARIABLES
    now,               \* the wall clock
    store,             \* the Store's event rows
    chain,             \* the resolving contract: markets already resolved
    monitoringEvents,  \* PriceMonitor.monitoringEvents: feed id -> events
    processingEvents,  \* PriceMonitor.processingEvents
    currentKeyIndex,   \* PriceMonitor.currentKeyIndex
    activePriceIds,    \* PythClient.activePriceIds
    eventSource,       \* PythClient.eventSource: "null" or "open"
    inv,               \* the pending invocations of handlePriceUpdate and checkExpiredEvents
    refresh,           \* the pending refreshEvents
    isRunning,         \* PriceMonitor.isRunning
    checkInterval,     \* PriceMonitor.checkInterval: the refresh timer is set
    expiredCheckInterval, \* PriceMonitor.expiredCheckInterval: the sweep timer is set
    startPc,           \* where start() stands: "new", "refresh", "sweep", "done"
    resolverResult,    \* per entity, how its updatePriceAndFulfill calls went so far:
                       \* "none", "failed" (threw, none returned yet) or "ok" (one returned a hash)
    drained,           \* who has run since an async function settled and the await
                       \* on it has not resumed: its next await cannot complete yet
    inputs,            \* timers fired, samples delivered and calls failed so far
    evalIn,            \* one event and one price update handed to the loop body of
                       \* handlePriceUpdate, and the time it took as currentTime
    evalOut,           \* what the loop body did with them
    keyEnv,            \* the i for which the environment sets PRIVATE_KEY_i
    contractClients,   \* PriceMonitor.contractClients: the key each client signs with
    constructed,       \* the constructor: "new" (not run), "running" or "threw"
    callers,           \* per invocation, where it stands around getNextKeyIndex
    returned,          \* the calls of getNextKeyIndex so far: who called, what it got
    streamIds,         \* the price ids the open stream was requested with
    reconnectAttempts, \* PythClient.reconnectAttempts
    reconnectTimers,   \* the delays of the reconnect timers set and not yet fired
    pendingStreams,    \* the calls of getPriceUpdatesStream awaited: the ids of each
    signals,           \* how many times connectionFailed was emitted
    errors,            \* how many connection errors were handled
    restart,           \* handleConnectionFailure: "none" (not called), "disconnect"
                       \* (stop() awaits disconnect), "failed" (stop() rejected),
                       \* "refresh", "sweep" (start() awaits them), "done"
    listeners,         \* PythClient still has the listeners the constructor added
    sweeps,            \* how many times the sweep timer called checkExpiredEvents
    delivered,         \* the updates handed to handlePriceUpdate so far: the feed id of
                       \* each and whether monitoringEvents had events for it
    refreshErrors,     \* how many errors the catch of refreshEvents has logged
    shutdown           \* the SIGTERM handler of index.ts: "none" (no signal), "stopping"
                       \* (stop() awaits disconnect), "stopped" (stop() returned) or
                       \* "exited" (process.exit ran)

svcVars == <<isRunning, checkInterval, expiredCheckInterval, startPc>>

\* What the monitor's run leaves alone: the variables of the evaluator on its
\* own.
evalVars == <<evalIn, evalOut>>
keyVars == <<keyEnv, contractClients, constructed, callers, returned>>
feedVars == <<streamIds, reconnectAttempts, reconnectTimers, pendingStreams, signals,
              errors>>
lifeVars == <<restart, listeners, sweeps>>
shutVars == <<delivered, shutdown, refreshErrors>>
sideVars == <<evalVars, keyVars, feedVars, lifeVars, shutVars>>

\* The variables of the monitor's run.
monitorVars == <<now, store, chain, monitoringEvents, processingEvents, currentKeyIndex,
                 activePriceIds, eventSource, inv, refresh, resolverResult, drained,
                 inputs, svcVars>>

vars == <<monitorVars, sideVars>>

\* The number of private keys configured (PRIVATE_KEY_0..N-1): the constructor
\* builds one contract client for each.
NumClients == 2

\* ----------------------------------------------------------- pure helpers

RECURSIVE Pow10(_)
Pow10(n) == IF n = 0 THEN 1 ELSE 10 * Pow10(n - 1)

\* handlePriceUpdate's adjustedPrice, a fraction: the mantissa divided by
\* 10^|expo| when expo is negative, multiplied by 10^expo otherwise.
AdjustedPrice(u) ==
    IF u.expo < 0 THEN [ num |-> u.price, den |-> Pow10(-u.expo) ]
    ELSE [ num |-> u.price * Pow10(u.expo), den |-> 1 ]

\* handlePriceUpdate's conditionMet with a strict comparison.
EvaluateStrict(operator, triggerPrice, price) ==
    IF operator = "GT" THEN price.num > triggerPrice * price.den
    ELSE IF operator = "LT" THEN price.num < triggerPrice * price.den
    ELSE FALSE

\* handlePriceUpdate's conditionMet: adjustedPrice >= triggerPrice for GT,
\* adjustedPrice <= triggerPrice for LT, false for any other operator.
Evaluate(operator, triggerPrice, price) ==
    IF operator = "GT" THEN price.num >= triggerPrice * price.den
    ELSE IF operator = "LT" THEN price.num <= triggerPrice * price.den
    ELSE FALSE

\* handlePriceUpdate's expiry test: event.end_time <= currentTime.
Expired(end_time, currentTime) == end_time <= currentTime

\* The loop body of handlePriceUpdate with the price condition tested before
\* the expiry.
EventOutcomePriceFirst(hasFields, operator, triggerPrice, end_time, price, currentTime) ==
    IF ~hasFields THEN "skip"
    ELSE IF Evaluate(operator, triggerPrice, price) THEN "YES"
    ELSE IF Expired(end_time, currentTime) THEN "NO"
    ELSE "none"

\* The loop body of handlePriceUpdate for an event that is not in the in-flight
\* set: "skip" when a required field is missing, "NO" when the event expired,
\* "YES" when its condition is met, "none" otherwise.
EventOutcome(hasFields, operator, triggerPrice, end_time, price, currentTime) ==
    IF ~hasFields THEN "skip"
    ELSE IF Expired(end_time, currentTime) THEN "NO"
    ELSE IF Evaluate(operator, triggerPrice, price) THEN "YES"
    ELSE "none"

\* handlePriceUpdate's conditionMet for entity e.
ConditionMet(e, price) == Evaluate(Operator(e), TriggerPrice(e), price)

\* handlePriceUpdate's expiry test against the time taken at its start.
ExpiredAt(e, t) == Expired(EndTime(e), t)

\* The loop body's outcome for entity e, whose rows carry every field.
OutcomeOf(e, price, t) ==
    EventOutcome(TRUE, Operator(e), TriggerPrice(e), EndTime(e), price, t)

\* A token id that does not tell the outcomes apart.
WinningTokenOfYes(e, outcome) == e * 2

\* The winning token of an outcome.
WinningToken(e, outcome) == IF outcome = "YES" THEN e * 2 ELSE e * 2 + 1

\* The hash of the transaction that resolved e's market.
TxHash(e) == 10 + e

\* The ids of S in ascending order: the order of a query's rows.
RECURSIVE Ascending(_)
Ascending(S) ==
    IF S = {} THEN <<>>
    ELSE LET m == CHOOSE x \in S : \A y \in S : x <= y
         IN <<m>> \o Ascending(S \ {m})

SeqToSet(s) == { s[i] : i \in 1..Len(s) }

\* DatabaseClient.getActiveAutoResolutionEvents.
ActiveAutoResolutionEvents ==
    Ascending({ e \in Entities : store[e].status = "OPEN" /\ EndTime(e) > now })

\* DatabaseClient.getExpiredAutoResolutionEvents.
ExpiredAutoResolutionEvents ==
    Ascending({ e \in Entities : store[e].status = "OPEN" /\ EndTime(e) < now })

\* The rows of `events` on feed f, in order.
OfFeed(events, f) == SelectSeq(events, LAMBDA e : store[e].pythFeedId = f)

\* The feed ids of `events` in order of first occurrence: a Map's key order.
RECURSIVE FeedOrder(_)
FeedOrder(events) ==
    IF events = <<>> THEN <<>>
    ELSE LET f == store[Head(events)].pythFeedId
         IN <<f>> \o FeedOrder(SelectSeq(Tail(events),
                                         LAMBDA e : store[e].pythFeedId # f))

\* A grouping that adds the rows to the buckets the registry has.
EventsByFeedIdMerged(events) ==
    [ f \in (DOMAIN monitoringEvents) \cup { store[e].pythFeedId : e \in SeqToSet(events) } |->
        IF f \in DOMAIN monitoringEvents
        THEN monitoringEvents[f]
             \o SelectSeq(OfFeed(events, f),
                          LAMBDA e : e \notin SeqToSet(monitoringEvents[f]))
        ELSE OfFeed(events, f) ]

\* refreshEvents' eventsByFeedId.
EventsByFeedId(events) ==
    [ f \in { store[e].pythFeedId : e \in SeqToSet(events) } |-> OfFeed(events, f) ]

\* ------------------------------------------------------------- the state

Idle ==
    [ pc |-> "idle", feedId |-> "", events |-> <<>>, idx |-> 0, update |-> NoUpdate,
      currentTime |-> 0, outcome |-> "", txHash |-> 0,
      marked |-> FALSE, err |-> "", expired |-> <<>>, groups |-> <<>> ]

\* The evaluator on its own is not in use.
NoEval ==
    [ id |-> 0, hasFields |-> FALSE, operator |-> "", triggerPrice |-> 0, end_time |-> 0,
      price |-> 0, expo |-> 0, currentTime |-> 0 ]
NoOutcome == [ outcome |-> "", winningTokenId |-> 0 ]

\* The constructor's loop over PRIVATE_KEY_i: one client per key that is set,
\* in the order of i.
RECURSIVE ClientsFrom(_, _)
ClientsFrom(env, i) ==
    IF i >= MaxKeys THEN << >>
    ELSE IF i \in env THEN <<i>> \o ClientsFrom(env, i + 1)
    ELSE ClientsFrom(env, i + 1)

\* The key pool of the monitor's run: NumClients keys are set and the
\* constructor has returned.
PoolInit ==
    /\ keyEnv = 0..(NumClients - 1)
    /\ contractClients = [ i \in 1..NumClients |-> i - 1 ]
    /\ constructed = "running"
    /\ callers = [ p \in Procs |-> "idle" ]
    /\ returned = << >>

\* The feed client as its constructor leaves it.
FeedInit ==
    /\ streamIds = {}
    /\ reconnectAttempts = 0
    /\ reconnectTimers = << >>
    /\ pendingStreams = << >>
    /\ signals = 0
    /\ errors = 0

\* No connectionFailed yet: the listeners of the constructor are in place.
LifeInit ==
    /\ restart = "none"
    /\ listeners = TRUE
    /\ sweeps = 0

\* No update delivered and no signal received yet.
ShutInit ==
    /\ delivered = << >>
    /\ shutdown = "none"
    /\ refreshErrors = 0

\* The monitor as its constructor leaves it.
MonitorInit ==
    /\ now = 0
    /\ store \in { [ e \in Entities |->
                       [ status |-> "OPEN", winningTokenId |-> 0, resolutionHash |-> 0,
                         pythFeedId |-> IF e = 1 THEN "0xf1" ELSE f ] ] : f \in Feeds }
    /\ chain = {}
    /\ monitoringEvents = << >>
    /\ processingEvents = {}
    /\ currentKeyIndex = 0
    /\ activePriceIds = {}
    /\ eventSource = "null"
    /\ inv = [ p \in Procs |-> Idle ]
    /\ refresh = [ pc |-> "idle", events |-> <<>> ]
    /\ resolverResult = [ e \in Entities |-> "none" ]
    /\ drained = {}
    /\ inputs = 0
    /\ isRunning = FALSE
    /\ checkInterval = FALSE
    /\ expiredCheckInterval = FALSE
    /\ startPc = "new"

Init ==
    /\ MonitorInit
    /\ evalIn = NoEval
    /\ evalOut = NoOutcome
    /\ PoolInit
    /\ FeedInit
    /\ LifeInit
    /\ ShutInit

\* The entity the invocation is working on.
Current(r) == r.events[r.idx]

\* The steps of the pipeline between the claim and the release.
PipelinePcs == {"mark", "resolver", "mark2", "hash", "notify"}

\* An async function has settled and the `await` on it has not resumed yet:
\* only continuations that are already queued run before it does.
MicrotaskPending == \E p \in Procs : inv[p].pc \in {"retOk", "retErr"}

\* The continuation of who (an invocation, or "refresh") runs.  While an await
\* on a settled function has yet to resume, only what completed in the same
\* task runs: who has run since then waits, its next await being a new call.
Runs(who) ==
    /\ MicrotaskPending => who \notin drained
    /\ drained' = IF \E q \in Procs : inv'[q].pc \in {"retOk", "retErr"}
                  THEN drained \cup {who} ELSE {}

\* The await of invocation p on its settled resolveEventViaContract resumes.
Resumes(p) ==
    drained' = IF \E q \in Procs : inv'[q].pc \in {"retOk", "retErr"}
               THEN drained \cup {p} ELSE {}


\* --------------------------------------------------- the loops' next turn

\* The invocation r with the pipeline started for its j-th entity.
Claimed(r, j, outcome) ==
    [ r EXCEPT !.pc = "mark", !.idx = j, !.outcome = outcome,
               !.txHash = 0, !.marked = FALSE, !.err = "" ]

\* handlePriceUpdate's loop from position `from`: the first entity that is not
\* in the in-flight set pe and that expired or meets its condition (0: none).
RECURSIVE FirstFiring(_, _, _, _, _)
FirstFiring(events, from, pe, price, t) ==
    IF from > Len(events) THEN 0
    ELSE IF /\ events[from] \notin pe
            /\ OutcomeOf(events[from], price, t) \in {"NO", "YES"}
         THEN from
         ELSE FirstFiring(events, from + 1, pe, price, t)

\* handlePriceUpdate runs on from position `from` until its next await: it
\* claims the first entity that fires, or ends.
HandlerContinue(r, from, pe) ==
    LET j == FirstFiring(r.events, from, pe, AdjustedPrice(r.update), r.currentTime)
    IN IF j = 0
       THEN [ r |-> Idle, pe |-> pe ]
       ELSE [ r |-> Claimed(r, j, OutcomeOf(r.events[j], AdjustedPrice(r.update),
                                            r.currentTime)),
              pe |-> pe \cup {r.events[j]} ]

\* checkExpiredEvents' inner loop from position `from`: the first entity that
\* is not in the in-flight set pe (0: none).
RECURSIVE FirstUnclaimed(_, _, _)
FirstUnclaimed(events, from, pe) ==
    IF from > Len(events) THEN 0
    ELSE IF events[from] \notin pe THEN from
         ELSE FirstUnclaimed(events, from + 1, pe)

\* checkExpiredEvents' outer loop moves to the next feed group and awaits its
\* price, or ends.
SweepNextGroup(r) ==
    IF r.groups = <<>> THEN Idle
    ELSE [ r EXCEPT !.pc = "price", !.feedId = Head(r.groups),
                    !.groups = Tail(r.groups),
                    !.events = OfFeed(r.expired, Head(r.groups)),
                    !.idx = 0, !.update = NoUpdate, !.outcome = "",
                    !.txHash = 0, !.marked = FALSE, !.err = "" ]

\* checkExpiredEvents runs on from position `from` of the current group until
\* its next await.
SweepContinue(r, from, pe) ==
    LET j == FirstUnclaimed(r.events, from, pe)
    IN IF j = 0
       THEN [ r |-> SweepNextGroup(r), pe |-> pe ]
       ELSE [ r |-> Claimed(r, j, "NO"), pe |-> pe \cup {r.events[j]} ]

Continue(p, r, from, pe) ==
    IF p \in Handlers THEN HandlerContinue(r, from, pe) ELSE SweepContinue(r, from, pe)

\* A cursor that stays where it is.
SameKeyIndex(k, n) == k

\* PriceMonitor.getNextKeyIndex: the cursor after a call, for a pool of n
\* clients. JavaScript's remainder by 0 is NaN, which -1 stands for.
NextKeyIndexOf(k, n) == IF n = 0 THEN -1 ELSE (k + 1) % n

\* PriceMonitor.getNextKeyIndex: the cursor after a call.
NextKeyIndex(k) == NextKeyIndexOf(k, NumClients)

\* A removal that keeps the key of a bucket it has emptied.
RemoveKeepingKey(me, feedId, eventId) ==
    IF feedId \notin DOMAIN me THEN me
    ELSE [ me EXCEPT ![feedId] = SelectSeq(me[feedId], LAMBDA e : e # eventId) ]

\* PriceMonitor.removeEventFromMonitoring: the registry afterwards.
RemoveEventFromMonitoring(me, feedId, eventId) ==
    IF feedId \notin DOMAIN me THEN me
    ELSE LET remaining == SelectSeq(me[feedId], LAMBDA e : e # eventId)
         IN IF Len(remaining) > 0
            THEN [ me EXCEPT ![feedId] = remaining ]
            ELSE [ f \in (DOMAIN me) \ {feedId} |-> me[f] ]

\* Whether removeEventFromMonitoring empties the bucket and so unsubscribes.
Unsubscribes(me, feedId, eventId) ==
    /\ feedId \in DOMAIN me
    /\ \A i \in 1..Len(me[feedId]) : me[feedId][i] = eventId

\* PythClient.subscribeToPriceFeeds: the subscription set afterwards.
SubscribeToPriceFeeds(ids, priceIds) == ids \cup priceIds

\* PythClient.unsubscribe: the subscription set afterwards.
Unsubscribe(ids, priceId) == ids \ {priceId}

\* The stream after a subscribe or an unsubscribe left the set `ids`.
StreamFor(ids) == IF ids # {} THEN "open" ELSE "null"


\* ------------------------------------------------------------ the actions

\* The pipeline's record of invocation p changes to r, the in-flight set to pe.
Becomes(p, r, pe) ==
    /\ inv' = [ inv EXCEPT ![p] = r ]
    /\ processingEvents' = pe

\* One more input from the environment, while the budget lasts.
Input ==
    /\ inputs < MaxInputs
    /\ inputs' = inputs + 1

\* A timer fires or the stream delivers: a task of its own, which does not
\* run between a settled async function and the await on it.
Task ==
    /\ ~MicrotaskPending
    /\ Input

\* An external call fails.
Fault == Input

\* PriceMonitor.start, called once the monitor is constructed: it sets
\* isRunning and awaits the first refreshEvents.
Start ==
    /\ startPc = "new"
    /\ ~isRunning
    /\ isRunning' = TRUE
    /\ startPc' = "refresh"
    /\ refresh' = [ pc |-> "query", events |-> ActiveAutoResolutionEvents ]
    /\ UNCHANGED <<now, store, chain, monitoringEvents, processingEvents,
                   currentKeyIndex, activePriceIds, eventSource, inv, resolverResult, inputs,
                   checkInterval, expiredCheckInterval>>
    /\ UNCHANGED drained
    /\ UNCHANGED sideVars

\* start() resumes after its refreshEvents and awaits the first
\* checkExpiredEvents.
StartSweep(s) ==
    /\ startPc = "refresh"
    /\ refresh.pc = "idle"
    /\ startPc' = "sweep"
    /\ Becomes(s, [ Idle EXCEPT !.pc = "query", !.expired = ExpiredAutoResolutionEvents ],
               processingEvents)
    /\ UNCHANGED <<now, store, chain, monitoringEvents, currentKeyIndex,
                   activePriceIds, eventSource, refresh, resolverResult, inputs,
                   isRunning, checkInterval, expiredCheckInterval>>
    /\ Runs(s)
    /\ UNCHANGED sideVars

\* start() resumes after its checkExpiredEvents and sets the two timers.
StartTimers(s) ==
    /\ ~MicrotaskPending
    /\ startPc = "sweep"
    /\ inv[s].pc = "idle"
    /\ startPc' = "done"
    /\ checkInterval' = TRUE
    /\ expiredCheckInterval' = TRUE
    /\ UNCHANGED <<now, store, chain, monitoringEvents, processingEvents,
                   currentKeyIndex, activePriceIds, eventSource, inv, refresh, resolverResult,
                   inputs, isRunning>>
    /\ UNCHANGED drained
    /\ UNCHANGED sideVars

\* Time passes, between tasks.
Tick ==
    /\ ~MicrotaskPending
    /\ now < MaxTime
    /\ now' = now + 1
    /\ UNCHANGED <<store, chain, monitoringEvents, processingEvents, currentKeyIndex,
                   activePriceIds, eventSource, inv, refresh, resolverResult, inputs,
                   svcVars>>
    /\ UNCHANGED drained
    /\ UNCHANGED sideVars

\* refreshEvents is called by its timer and issues the Store query.
RefreshStart ==
    /\ Task
    /\ checkInterval
    /\ refresh.pc = "idle"
    /\ refresh' = [ pc |-> "query", events |-> ActiveAutoResolutionEvents ]
    /\ UNCHANGED <<now, store, chain, monitoringEvents, processingEvents,
                   currentKeyIndex, activePriceIds, eventSource, inv, resolverResult,
                   svcVars>>
    /\ UNCHANGED drained
    /\ UNCHANGED sideVars

\* The query returned: the registry is replaced and the feeds subscribed.
RefreshDone ==
    /\ refresh.pc = "query"
    /\ refresh' = [ pc |-> "idle", events |-> <<>> ]
    /\ LET eventsByFeedId == EventsByFeedId(refresh.events)
           ids == SubscribeToPriceFeeds(activePriceIds, DOMAIN eventsByFeedId)
       IN /\ monitoringEvents' = eventsByFeedId
          /\ activePriceIds' = ids
          /\ eventSource' = StreamFor(ids)
    /\ UNCHANGED <<now, store, chain, processingEvents, currentKeyIndex, inv,
                   resolverResult, inputs, svcVars>>
    /\ Runs("refresh")
    /\ UNCHANGED sideVars

\* A catch of refreshEvents that drops the registry when the query threw.
RefreshCatchClears ==
    /\ refresh.pc = "query"
    /\ Fault
    /\ refresh' = [ pc |-> "idle", events |-> <<>> ]
    /\ monitoringEvents' = << >>
    /\ UNCHANGED <<now, store, chain, processingEvents,
                   currentKeyIndex, activePriceIds, eventSource, inv, resolverResult,
                   svcVars>>
    /\ Runs("refresh")

\* The query threw: the catch of refreshEvents takes the error and
\* refreshEvents returns.
RefreshCatch ==
    /\ refresh.pc = "query"
    /\ Fault
    /\ refresh' = [ pc |-> "idle", events |-> <<>> ]
    /\ UNCHANGED <<now, store, chain, monitoringEvents, processingEvents,
                   currentKeyIndex, activePriceIds, eventSource, inv, resolverResult,
                   svcVars>>
    /\ Runs("refresh")

\* The query threw: refreshEvents logs the error and returns.
RefreshFailed ==
    /\ RefreshCatch
    /\ UNCHANGED sideVars

\* A handlePriceUpdate that looks the events of the feed up in the Store's
\* rows when the registry has none.
DispatchFromStore(h, id, u) ==
    /\ Task
    /\ inv[h].pc = "idle"
    /\ \E i \in 1..Len(HandlerSlots) :
          /\ HandlerSlots[i] = h
          /\ \A j \in 1..(i - 1) : inv[HandlerSlots[j]].pc # "idle"
    /\ eventSource = "open"
    /\ LET feedId == "0x" \o id
           events == IF feedId \in DOMAIN monitoringEvents
                     THEN monitoringEvents[feedId]
                     ELSE OfFeed(Ascending(Entities), feedId)
           r == [ Idle EXCEPT !.feedId = feedId, !.events = events,
                              !.update = u, !.currentTime = now ]
           c == HandlerContinue(r, 1, processingEvents)
       IN /\ feedId \in activePriceIds
          /\ Becomes(h, c.r, c.pe)
    /\ UNCHANGED <<now, store, chain, monitoringEvents, currentKeyIndex,
                   activePriceIds, eventSource, refresh, resolverResult, svcVars>>
    /\ UNCHANGED drained

\* handlePriceUpdate with update u of feed id `id`, up to its first await.
Dispatch(h, id, u) ==
    /\ Task
    /\ inv[h].pc = "idle"
    /\ \E i \in 1..Len(HandlerSlots) :
          /\ HandlerSlots[i] = h
          /\ \A j \in 1..(i - 1) : inv[HandlerSlots[j]].pc # "idle"
    /\ eventSource = "open"
    /\ LET feedId == "0x" \o id
       IN /\ feedId \in activePriceIds
          /\ IF feedId \notin DOMAIN monitoringEvents
             THEN UNCHANGED <<inv, processingEvents>>
             ELSE LET r == [ Idle EXCEPT !.feedId = feedId,
                                         !.events = monitoringEvents[feedId],
                                         !.update = u, !.currentTime = now ]
                      c == HandlerContinue(r, 1, processingEvents)
                  IN Becomes(h, c.r, c.pe)
    /\ UNCHANGED <<now, store, chain, monitoringEvents, currentKeyIndex,
                   activePriceIds, eventSource, refresh, resolverResult, svcVars>>
    /\ UNCHANGED drained

\* The stream delivers update u of feed id `id`: handlePriceUpdate runs up to
\* its first await.
HandlePriceUpdate(h, id, u) ==
    /\ Dispatch(h, id, u)
    /\ UNCHANGED sideVars

\* resolveEventViaContract's catch: the claim is released and the error `err`
\* thrown on to the caller, whose await has yet to resume.
InnerCatch(p, err) ==
    Becomes(p, [ inv[p] EXCEPT !.pc = "retErr", !.err = err ],
            processingEvents \ {Current(inv[p])})

\* The first resolveEventWithOutcome returned: the row is RESOLVING with the
\* tentative token, a key is taken and resolveEventViaContract runs up to its
\* first await.
MarkDone(p) ==
    /\ inv[p].pc = "mark"
    /\ LET r == inv[p]
           e == Current(r)
           m == [ r EXCEPT !.marked = TRUE ]
       IN /\ store' = [ store EXCEPT ![e].status = "RESOLVING",
                                     ![e].winningTokenId = WinningToken(e, r.outcome) ]
          /\ currentKeyIndex' = NextKeyIndex(currentKeyIndex)
          /\ IF r.update.vaa
             THEN Becomes(p, [ m EXCEPT !.pc = "resolver" ], processingEvents)
             ELSE Becomes(p, [ m EXCEPT !.pc = "retErr", !.err = "vaa" ],
                          processingEvents \ {e})
    /\ UNCHANGED <<now, chain, monitoringEvents, activePriceIds, eventSource, refresh,
                   resolverResult, inputs, svcVars>>
    /\ Runs(p)
    /\ UNCHANGED sideVars

\* The first resolveEventWithOutcome threw and the attempt went on to the
\* contract call all the same.
MarkFailedProceeds(p) ==
    /\ inv[p].pc = "mark"
    /\ Fault
    /\ currentKeyIndex' = NextKeyIndex(currentKeyIndex)
    /\ Becomes(p, [ inv[p] EXCEPT !.pc = "resolver" ], processingEvents)
    /\ UNCHANGED <<now, store, chain, monitoringEvents, activePriceIds, eventSource,
                   refresh, resolverResult, svcVars>>
    /\ Runs(p)
    /\ UNCHANGED sideVars

\* The first resolveEventWithOutcome threw.  handlePriceUpdate's catch releases
\* the claim and the loop goes on; in checkExpiredEvents the catch of the feed
\* group takes it, and the loop goes on with the next group.
MarkFailed(p) ==
    /\ inv[p].pc = "mark"
    /\ Fault
    /\ LET r == inv[p]
           c == HandlerContinue(r, r.idx + 1, processingEvents \ {Current(r)})
       IN IF p \in Handlers
          THEN Becomes(p, c.r, c.pe)
          ELSE Becomes(p, SweepNextGroup(r), processingEvents)
    /\ UNCHANGED <<now, store, chain, monitoringEvents, currentKeyIndex,
                   activePriceIds, eventSource, refresh, resolverResult, svcVars>>
    /\ Runs(p)
    /\ UNCHANGED sideVars

\* updatePriceAndFulfill returned the hash of the resolverResult transaction: the
\* second resolveEventWithOutcome is issued.
ResolverDone(p) ==
    /\ inv[p].pc = "resolver"
    /\ Current(inv[p]) \notin chain
    /\ chain' = chain \cup {Current(inv[p])}
    /\ resolverResult' = [ resolverResult EXCEPT ![Current(inv[p])] = "ok" ]
    /\ Becomes(p, [ inv[p] EXCEPT !.pc = "mark2", !.txHash = TxHash(Current(inv[p])) ],
               processingEvents)
    /\ UNCHANGED <<now, store, monitoringEvents, currentKeyIndex, activePriceIds,
                   eventSource, refresh, inputs, svcVars>>
    /\ Runs(p)
    /\ UNCHANGED sideVars

\* updatePriceAndFulfill threw on a transient problem: the transaction was not
\* mined (lost = FALSE), or it was mined and the wait for it failed (lost = TRUE).
ResolverFailed(p, lost) ==
    /\ inv[p].pc = "resolver"
    /\ lost => Current(inv[p]) \notin chain
    /\ Fault
    /\ chain' = IF lost THEN chain \cup {Current(inv[p])} ELSE chain
    /\ resolverResult' =
          [ resolverResult EXCEPT ![Current(inv[p])] = IF @ = "ok" THEN "ok" ELSE "failed" ]
    /\ InnerCatch(p, "transient")
    /\ UNCHANGED <<now, store, monitoringEvents, currentKeyIndex, activePriceIds,
                   eventSource, refresh, svcVars>>
    /\ Runs(p)
    /\ UNCHANGED sideVars

\* updatePriceAndFulfill threw because the contract rejected the call: the
\* market is resolved already (MARKET_ALREADY_RESOLVED).
ResolverRejected(p) ==
    /\ inv[p].pc = "resolver"
    /\ Current(inv[p]) \in chain
    /\ InnerCatch(p, "rejected")
    /\ UNCHANGED <<now, store, chain, monitoringEvents, currentKeyIndex,
                   activePriceIds, eventSource, refresh, resolverResult, inputs,
                   svcVars>>
    /\ Runs(p)
    /\ UNCHANGED sideVars

\* The second resolveEventWithOutcome returned: getEventById is issued.
Mark2Done(p) ==
    /\ inv[p].pc = "mark2"
    /\ LET e == Current(inv[p])
       IN store' = [ store EXCEPT ![e].status = "RESOLVING",
                                  ![e].winningTokenId = WinningToken(e, inv[p].outcome) ]
    /\ Becomes(p, [ inv[p] EXCEPT !.pc = "hash" ], processingEvents)
    /\ UNCHANGED <<now, chain, monitoringEvents, currentKeyIndex, activePriceIds,
                   eventSource, refresh, resolverResult, inputs, svcVars>>
    /\ Runs(p)
    /\ UNCHANGED sideVars

\* updateEventResolutionHash returned: the row is RESOLVED with the hash, and
\* the matching engine is notified.
HashDone(p) ==
    /\ inv[p].pc = "hash"
    /\ store' = [ store EXCEPT ![Current(inv[p])].status = "RESOLVED",
                               ![Current(inv[p])].resolutionHash = inv[p].txHash ]
    /\ Becomes(p, [ inv[p] EXCEPT !.pc = "notify" ], processingEvents)
    /\ UNCHANGED <<now, chain, monitoringEvents, currentKeyIndex, activePriceIds,
                   eventSource, refresh, resolverResult, inputs, svcVars>>
    /\ Runs(p)
    /\ UNCHANGED sideVars

\* A Store call after the contract call threw.
StoreFailed(p) ==
    /\ inv[p].pc \in {"mark2", "hash"}
    /\ Fault
    /\ InnerCatch(p, "store")
    /\ UNCHANGED <<now, store, chain, monitoringEvents, currentKeyIndex,
                   activePriceIds, eventSource, refresh, resolverResult, svcVars>>
    /\ Runs(p)
    /\ UNCHANGED sideVars

\* The notification returned: the claim is released and
\* resolveEventViaContract returns.
NotifyDone(p) ==
    /\ inv[p].pc = "notify"
    /\ Becomes(p, [ inv[p] EXCEPT !.pc = "retOk" ],
               processingEvents \ {Current(inv[p])})
    /\ UNCHANGED <<now, store, chain, monitoringEvents, currentKeyIndex,
                   activePriceIds, eventSource, refresh, resolverResult, inputs,
                   svcVars>>
    /\ Runs(p)
    /\ UNCHANGED sideVars

\* The notification threw and the error left resolveEventViaContract through
\* its catch.
NotifyFatal(p) ==
    /\ inv[p].pc = "notify"
    /\ InnerCatch(p, "notify")
    /\ UNCHANGED <<now, store, chain, monitoringEvents, currentKeyIndex,
                   activePriceIds, eventSource, refresh, resolverResult, inputs,
                   svcVars>>
    /\ Runs(p)
    /\ UNCHANGED sideVars

\* The notification threw: the catch around it logs the error, which the
\* record keeps in err, and resolveEventViaContract goes on as after a
\* notification that returned.
NotifyFailed(p) ==
    /\ inv[p].pc = "notify"
    /\ Becomes(p, [ inv[p] EXCEPT !.pc = "retOk", !.err = "notify" ],
               processingEvents \ {Current(inv[p])})
    /\ UNCHANGED <<now, store, chain, monitoringEvents, currentKeyIndex,
                   activePriceIds, eventSource, refresh, resolverResult, inputs,
                   svcVars>>
    /\ Runs(p)
    /\ UNCHANGED sideVars

\* The caller resumes after resolveEventViaContract returned: handlePriceUpdate
\* removes the entity from the registry; both loops go on.
ReturnOk(p) ==
    /\ inv[p].pc = "retOk"
    /\ LET r == inv[p]
           c == Continue(p, r, r.idx + 1, processingEvents)
       IN /\ Becomes(p, c.r, c.pe)
          /\ IF p \in Handlers
             THEN LET ids == IF Unsubscribes(monitoringEvents, r.feedId, Current(r))
                             THEN Unsubscribe(activePriceIds, r.feedId)
                             ELSE activePriceIds
                  IN /\ monitoringEvents' =
                           RemoveEventFromMonitoring(monitoringEvents, r.feedId, Current(r))
                     /\ activePriceIds' = ids
                     /\ eventSource' =
                           IF Unsubscribes(monitoringEvents, r.feedId, Current(r))
                           THEN StreamFor(ids) ELSE eventSource
             ELSE UNCHANGED <<monitoringEvents, activePriceIds, eventSource>>
    /\ UNCHANGED <<now, store, chain, currentKeyIndex, refresh, resolverResult, inputs,
                   svcVars>>
    /\ Resumes(p)
    /\ UNCHANGED sideVars

\* The caller resumes after resolveEventViaContract threw: handlePriceUpdate's
\* catch releases the claim and its loop goes on; checkExpiredEvents goes on
\* with the next feed group.
ReturnErr(p) ==
    /\ inv[p].pc = "retErr"
    /\ LET r == inv[p]
           c == HandlerContinue(r, r.idx + 1, processingEvents \ {Current(r)})
       IN IF p \in Handlers
          THEN Becomes(p, c.r, c.pe)
          ELSE Becomes(p, SweepNextGroup(r), processingEvents)
    /\ UNCHANGED <<now, store, chain, monitoringEvents, currentKeyIndex,
                   activePriceIds, eventSource, refresh, resolverResult, inputs,
                   svcVars>>
    /\ Resumes(p)
    /\ UNCHANGED sideVars

\* checkExpiredEvents is called by its timer and issues the Store query.
SweepStart(s) ==
    /\ Task
    /\ expiredCheckInterval
    /\ inv[s].pc = "idle"
    /\ Becomes(s, [ Idle EXCEPT !.pc = "query", !.expired = ExpiredAutoResolutionEvents ],
               processingEvents)
    /\ UNCHANGED <<now, store, chain, monitoringEvents, currentKeyIndex,
                   activePriceIds, eventSource, refresh, resolverResult, svcVars>>
    /\ UNCHANGED drained
    /\ UNCHANGED sideVars

\* The query returned: the rows are grouped by feed and the first group's
\* price is requested.
SweepQueryDone(s) ==
    /\ inv[s].pc = "query"
    /\ Becomes(s, SweepNextGroup([ inv[s] EXCEPT !.groups = FeedOrder(inv[s].expired) ]),
               processingEvents)
    /\ UNCHANGED <<now, store, chain, monitoringEvents, currentKeyIndex,
                   activePriceIds, eventSource, refresh, resolverResult, inputs,
                   svcVars>>
    /\ Runs(s)
    /\ UNCHANGED sideVars

\* The query threw: checkExpiredEvents logs the error and returns.
SweepQueryFailed(s) ==
    /\ inv[s].pc = "query"
    /\ Fault
    /\ Becomes(s, Idle, processingEvents)
    /\ UNCHANGED <<now, store, chain, monitoringEvents, currentKeyIndex,
                   activePriceIds, eventSource, refresh, resolverResult, svcVars>>
    /\ Runs(s)
    /\ UNCHANGED sideVars

\* getLatestPrice returned an update: the group's entities are taken in turn.
SweepPriceDone(s, vaa) ==
    /\ inv[s].pc = "price"
    /\ LET r == [ inv[s] EXCEPT !.update = [ price |-> 2, expo |-> 0, vaa |-> vaa ] ]
           c == SweepContinue(r, 1, processingEvents)
       IN Becomes(s, c.r, c.pe)
    /\ UNCHANGED <<now, store, chain, monitoringEvents, currentKeyIndex,
                   activePriceIds, eventSource, refresh, resolverResult, inputs,
                   svcVars>>
    /\ Runs(s)
    /\ UNCHANGED sideVars

\* getLatestPrice returned null: resolveEvents is issued for the whole group.
SweepNoPrice(s) ==
    /\ inv[s].pc = "price"
    /\ Fault
    /\ Becomes(s, [ inv[s] EXCEPT !.pc = "fallback" ], processingEvents)
    /\ UNCHANGED <<now, store, chain, monitoringEvents, currentKeyIndex,
                   activePriceIds, eventSource, refresh, resolverResult, svcVars>>
    /\ Runs(s)
    /\ UNCHANGED sideVars

\* resolveEvents returned: every row of the group is RESOLVED.
SweepFallbackDone(s) ==
    /\ inv[s].pc = "fallback"
    /\ store' = [ e \in Entities |->
                    IF e \in SeqToSet(inv[s].events)
                    THEN [ store[e] EXCEPT !.status = "RESOLVED" ]
                    ELSE store[e] ]
    /\ Becomes(s, SweepNextGroup(inv[s]), processingEvents)
    /\ UNCHANGED <<now, chain, monitoringEvents, currentKeyIndex, activePriceIds,
                   eventSource, refresh, resolverResult, inputs, svcVars>>
    /\ Runs(s)
    /\ UNCHANGED sideVars

\* resolveEvents threw: the catch of the feed group logs the error.
SweepFallbackFailed(s) ==
    /\ inv[s].pc = "fallback"
    /\ Fault
    /\ Becomes(s, SweepNextGroup(inv[s]), processingEvents)
    /\ UNCHANGED <<now, store, chain, monitoringEvents, currentKeyIndex,
                   activePriceIds, eventSource, refresh, resolverResult, svcVars>>
    /\ Runs(s)
    /\ UNCHANGED sideVars

Next ==
    \/ Start
    \/ \E s \in Sweepers : StartSweep(s)
    \/ \E s \in Sweepers : StartTimers(s)
    \/ Tick
    \/ RefreshStart
    \/ RefreshDone
    \/ RefreshFailed
    \/ \E h \in Handlers, id \in {"f1", "f2"}, u \in Samples : HandlePriceUpdate(h, id, u)
    \/ \E p \in Procs : MarkDone(p)
    \/ \E p \in Procs : MarkFailed(p)
    \/ \E p \in Procs : ResolverDone(p)
    \/ \E p \in Procs, lost \in BOOLEAN : ResolverFailed(p, lost)
    \/ \E p \in Procs : ResolverRejected(p)
    \/ \E p \in Procs : Mark2Done(p)
    \/ \E p \in Procs : HashDone(p)
    \/ \E p \in Procs : StoreFailed(p)
    \/ \E p \in Procs : NotifyDone(p)
    \/ \E p \in Procs : NotifyFailed(p)
    \/ \E p \in Procs : ReturnOk(p)
    \/ \E p \in Procs : ReturnErr(p)
    \/ \E s \in Sweepers : SweepStart(s)
    \/ \E s \in Sweepers : SweepQueryDone(s)
    \/ \E s \in Sweepers : SweepQueryFailed(s)
    \/ \E s \in Sweepers, vaa \in BOOLEAN : SweepPriceDone(s, vaa)
    \/ \E s \in Sweepers : SweepNoPrice(s)
    \/ \E s \in Sweepers : SweepFallbackDone(s)
    \/ \E s \in Sweepers : SweepFallbackFailed(s)

Spec == Init /\ [][Next]_vars

\* --------------------------------------------------- the evaluator on its own

\* The mantissas and exponents of the price updates the evaluator is tried
\* with: prices below, at and above every trigger price.
EvalMantissas == {1, 2, 3, 19, 20, 21}
EvalExpos == {-1, 0, 1}
EvalOperators == {"GT", "LT", "EQ"}

\* One event of a bucket and one price update, as handlePriceUpdate gets them.
EvalInputs ==
    [ id : Entities, hasFields : BOOLEAN, operator : EvalOperators,
      triggerPrice : 1..MaxTrigger, end_time : 0..MaxTime,
      price : EvalMantissas, expo : EvalExpos, currentTime : 0..MaxTime ]

EvalInit ==
    /\ MonitorInit
    /\ evalIn \in EvalInputs
    /\ evalOut = NoOutcome
    /\ PoolInit
    /\ FeedInit
    /\ LifeInit
    /\ ShutInit

\* The loop body of handlePriceUpdate runs for the event, which no invocation
\* has claimed, up to the claim it takes.
EvaluateEvent ==
    /\ evalOut = NoOutcome
    /\ LET o == EventOutcome(evalIn.hasFields, evalIn.operator, evalIn.triggerPrice,
                             evalIn.end_time,
                             AdjustedPrice([ price |-> evalIn.price, expo |-> evalIn.expo ]),
                             evalIn.currentTime)
       IN evalOut' = [ outcome |-> o,
                       winningTokenId |-> IF o \in {"YES", "NO"}
                                          THEN WinningToken(evalIn.id, o) ELSE 0 ]
    /\ UNCHANGED <<monitorVars, evalIn, keyVars, feedVars, lifeVars, shutVars>>

EvalNext == EvaluateEvent

SpecEval == EvalInit /\ [][EvalNext]_vars

\* ---------------------------------------------------- the key pool on its own

\* The monitor's variables that getNextKeyIndex leaves alone.
poolFrame == <<now, store, chain, monitoringEvents, processingEvents, activePriceIds,
               eventSource, inv, refresh, resolverResult, drained, inputs, svcVars,
               evalVars, feedVars, lifeVars, shutVars>>

KeysInit ==
    /\ MonitorInit
    /\ evalIn = NoEval
    /\ evalOut = NoOutcome
    /\ FeedInit
    /\ LifeInit
    /\ ShutInit
    /\ keyEnv \in SUBSET (0..(MaxKeys - 1))
    /\ contractClients = << >>
    /\ constructed = "new"
    /\ callers = [ p \in Procs |-> "idle" ]
    /\ returned = << >>

\* The constructor with the check of the pool left out.
ConstructUnchecked ==
    /\ constructed = "new"
    /\ contractClients' = ClientsFrom(keyEnv, 0)
    /\ constructed' = "running"
    /\ UNCHANGED <<poolFrame, currentKeyIndex, keyEnv, callers, returned>>

\* new PriceMonitor(...): one ContractClient per PRIVATE_KEY_i that is set; it
\* throws when there is none.
Construct ==
    /\ constructed = "new"
    /\ contractClients' = ClientsFrom(keyEnv, 0)
    /\ constructed' = IF Len(contractClients') = 0 THEN "threw" ELSE "running"
    /\ UNCHANGED <<poolFrame, currentKeyIndex, keyEnv, callers, returned>>

\* An invocation of handlePriceUpdate or of checkExpiredEvents claims an event
\* and awaits resolveEventWithOutcome.
CallerMarks(p) ==
    /\ constructed = "running"
    /\ callers[p] = "idle"
    /\ Len(returned) < MaxCalls
    /\ callers' = [callers EXCEPT ![p] = "marking"]
    /\ UNCHANGED <<poolFrame, currentKeyIndex, keyEnv, contractClients, constructed, returned>>

\* The await returns and the invocation calls getNextKeyIndex, which reads and
\* advances the cursor without an await in between, then awaits
\* resolveEventViaContract with the slot it got.
GetNextKeyIndex(p) ==
    /\ callers[p] = "marking"
    /\ returned' = Append(returned, [ who |-> p, keyIndex |-> currentKeyIndex ])
    /\ currentKeyIndex' = NextKeyIndexOf(currentKeyIndex, Len(contractClients))
    /\ callers' = [callers EXCEPT ![p] = "resolving"]
    /\ UNCHANGED <<poolFrame, keyEnv, contractClients, constructed>>

\* resolveEventViaContract settles and the invocation goes on to its next
\* event or returns.
CallerDone(p) ==
    /\ callers[p] = "resolving"
    /\ callers' = [callers EXCEPT ![p] = "idle"]
    /\ UNCHANGED <<poolFrame, currentKeyIndex, keyEnv, contractClients, constructed, returned>>

KeysNext ==
    \/ Construct
    \/ \E p \in Procs : CallerMarks(p)
    \/ \E p \in Procs : GetNextKeyIndex(p)
    \/ \E p \in Procs : CallerDone(p)

SpecKeys == KeysInit /\ [][KeysNext]_vars

\* -------------------------------------------------- the feed client on its own

\* What the feed client and the registry leave alone.
feedFrame == <<now, chain, processingEvents, currentKeyIndex, inv, refresh,
               resolverResult, drained, inputs, svcVars, evalVars, keyVars, lifeVars,
               shutVars>>

FeedClientInit ==
    /\ MonitorInit
    /\ evalIn = NoEval
    /\ evalOut = NoOutcome
    /\ PoolInit
    /\ FeedInit
    /\ LifeInit
    /\ ShutInit

RECURSIVE Pow2(_)
Pow2(k) == IF k = 0 THEN 1 ELSE 2 * Pow2(k - 1)

\* A delay that grows by reconnectInterval with every attempt.
BackoffLinear(attempts) == reconnectInterval * (attempts + 1)

\* handleConnectionError: delay = reconnectInterval * Math.pow(2, reconnectAttempts).
BackoffDelay(attempts) == reconnectInterval * Pow2(attempts)

\* handleConnectionError that gives up without a signal once the attempts
\* are used up.
HandleConnectionErrorSilent(ids) ==
    /\ errors' = errors + 1
    /\ IF ids # {} /\ reconnectAttempts < maxReconnectAttempts
       THEN /\ reconnectTimers' = Append(reconnectTimers, BackoffDelay(reconnectAttempts))
            /\ reconnectAttempts' = reconnectAttempts + 1
            /\ UNCHANGED signals
       ELSE UNCHANGED <<reconnectAttempts, reconnectTimers, signals>>

\* PythClient.handleConnectionError, with `ids` the subscription set it finds
\* and `timers` the reconnect timers that are set when it is called.
HandleConnectionErrorWith(timers, ids) ==
    /\ errors' = errors + 1
    /\ IF ids = {}
       THEN /\ reconnectTimers' = timers
            /\ UNCHANGED <<reconnectAttempts, signals>>
       ELSE IF reconnectAttempts < maxReconnectAttempts
       THEN /\ reconnectTimers' = Append(timers, BackoffDelay(reconnectAttempts))
            /\ reconnectAttempts' = reconnectAttempts + 1
            /\ UNCHANGED signals
       ELSE /\ signals' = signals + 1
            /\ reconnectTimers' = timers
            /\ UNCHANGED reconnectAttempts

\* PythClient.handleConnectionError, with `ids` the subscription set it finds.
HandleConnectionError(ids) == HandleConnectionErrorWith(reconnectTimers, ids)

\* A connection error can be taken: the budget of errors and of timers lasts.
ErrorInput ==
    /\ errors < MaxErrors
    /\ Len(reconnectTimers) < MaxTimers

\* PythClient.subscribeToPriceFeeds up to its await: the ids are added, the
\* stream there is is closed, and getPriceUpdatesStream is called with all of
\* the set unless the set is empty.
SubscribeCall(priceIds) ==
    LET uniqueIds == SubscribeToPriceFeeds(activePriceIds, priceIds)
    IN /\ activePriceIds' = uniqueIds
       /\ eventSource' = "null"
       /\ streamIds' = {}
       /\ pendingStreams' = IF uniqueIds # {} THEN Append(pendingStreams, uniqueIds)
                            ELSE pendingStreams

\* The sequence without its i-th element.
Without(seq, i) == SubSeq(seq, 1, i - 1) \o SubSeq(seq, i + 1, Len(seq))

\* refreshEvents once its query returned: the registry is replaced and its
\* keys are subscribed.
FeedRefresh ==
    /\ Len(pendingStreams) < MaxPending
    /\ monitoringEvents' = EventsByFeedId(ActiveAutoResolutionEvents)
    /\ SubscribeCall(DOMAIN monitoringEvents')
    /\ UNCHANGED <<store, reconnectAttempts, reconnectTimers, signals, errors, feedFrame>>

\* The stream delivered an update of event e's feed, and the invocation of
\* handlePriceUpdate claimed e and resolveEventWithOutcome returned.
FeedMark(e) ==
    /\ eventSource = "open"
    /\ store[e].pythFeedId \in streamIds
    /\ store[e].status = "OPEN"
    /\ e \in UNION { SeqToSet(monitoringEvents[f]) : f \in DOMAIN monitoringEvents }
    /\ store' = [ store EXCEPT ![e].status = "RESOLVING" ]
    /\ UNCHANGED <<monitoringEvents, activePriceIds, eventSource, feedVars, feedFrame>>

\* resolveEventViaContract returned for event e: removeEventFromMonitoring,
\* which unsubscribes the feed when the bucket is left empty, and the event
\* is marked RESOLVED.
FeedRemove(e) ==
    LET feedId == store[e].pythFeedId
    IN /\ store[e].status = "RESOLVING"
       /\ Len(pendingStreams) < MaxPending
       /\ store' = [ store EXCEPT ![e].status = "RESOLVED" ]
       /\ monitoringEvents' = RemoveEventFromMonitoring(monitoringEvents, feedId, e)
       /\ IF Unsubscribes(monitoringEvents, feedId, e)
          THEN LET ids == Unsubscribe(activePriceIds, feedId)
               IN IF ids # {}
                  THEN /\ activePriceIds' = ids
                       /\ eventSource' = "null"
                       /\ streamIds' = {}
                       /\ pendingStreams' = Append(pendingStreams, ids)
                       /\ UNCHANGED reconnectAttempts
                  ELSE /\ activePriceIds' = ids
                       /\ eventSource' = "null"
                       /\ streamIds' = {}
                       /\ reconnectAttempts' = IF eventSource # "null" THEN 0
                                               ELSE reconnectAttempts
                       /\ UNCHANGED pendingStreams
          ELSE UNCHANGED <<activePriceIds, eventSource, streamIds, pendingStreams,
                           reconnectAttempts>>
       /\ UNCHANGED <<reconnectTimers, signals, errors, feedFrame>>

\* getPriceUpdatesStream returned a stream for the i-th call awaited:
\* subscribeToPriceFeeds stores it and resets the attempts.
StreamOpened(i) ==
    /\ i \in DOMAIN pendingStreams
    /\ eventSource' = "open"
    /\ streamIds' = pendingStreams[i]
    /\ reconnectAttempts' = 0
    /\ pendingStreams' = Without(pendingStreams, i)
    /\ UNCHANGED <<store, monitoringEvents, activePriceIds, reconnectTimers, signals,
                   errors, feedFrame>>

\* getPriceUpdatesStream threw for the i-th call awaited: the catch of
\* subscribeToPriceFeeds calls handleConnectionError.
StreamFailed(i) ==
    /\ i \in DOMAIN pendingStreams
    /\ ErrorInput
    /\ pendingStreams' = Without(pendingStreams, i)
    /\ HandleConnectionError(activePriceIds)
    /\ UNCHANGED <<store, monitoringEvents, activePriceIds, eventSource, streamIds,
                   feedFrame>>

\* The open stream reports an error: onerror calls handleConnectionError.
StreamError ==
    /\ eventSource = "open"
    /\ ErrorInput
    /\ HandleConnectionError(activePriceIds)
    /\ UNCHANGED <<store, monitoringEvents, activePriceIds, eventSource, streamIds,
                   pendingStreams, feedFrame>>

\* The i-th reconnect timer fires: subscribeToPriceFeeds with the subscription
\* set of that moment.
ReconnectFires(i) ==
    /\ i \in DOMAIN reconnectTimers
    /\ Len(pendingStreams) < MaxPending
    /\ reconnectTimers' = Without(reconnectTimers, i)
    /\ SubscribeCall(activePriceIds)
    /\ UNCHANGED <<store, monitoringEvents, reconnectAttempts, signals, errors, feedFrame>>

FeedNext ==
    \/ FeedRefresh
    \/ \E e \in Entities : FeedMark(e)
    \/ \E e \in Entities : FeedRemove(e)
    \/ \E i \in 1..MaxPending : StreamOpened(i)
    \/ \E i \in 1..MaxPending : StreamFailed(i)
    \/ StreamError
    \/ \E i \in 1..MaxTimers : ReconnectFires(i)

SpecFeed == FeedClientInit /\ [][FeedNext]_vars

\* ------------------------------------------------- stop() and start() on their own

\* What stop(), start() and the feed client's errors leave alone.
lifeFrame == <<now, store, chain, processingEvents, currentKeyIndex, inv, refresh,
               resolverResult, drained, inputs, evalVars, keyVars, streamIds,
               pendingStreams, shutVars>>

LifeClientInit ==
    /\ MonitorInit
    /\ evalIn = NoEval
    /\ evalOut = NoOutcome
    /\ PoolInit
    /\ FeedInit
    /\ LifeInit
    /\ ShutInit

\* handleConnectionError emits connectionFailed for the subscription set `ids`
\* and the constructor's listener is there to call handleConnectionFailure.
Restarts(ids) ==
    /\ ids # {}
    /\ reconnectAttempts >= maxReconnectAttempts
    /\ listeners

\* handleConnectionFailure up to the await of stop(): the timers are cleared
\* and PythClient.close() closes the stream, clears the subscription set and
\* removes all listeners.
StopCalled ==
    /\ isRunning' = FALSE
    /\ checkInterval' = FALSE
    /\ expiredCheckInterval' = FALSE
    /\ eventSource' = "null"
    /\ activePriceIds' = {}
    /\ listeners' = FALSE
    /\ restart' = "disconnect"

\* subscribeToPriceFeeds(priceIds) with the call of getPriceUpdatesStream and
\* its outcome `ok` taken in one step, `timers` being the reconnect timers
\* that are set when it is called. A failure goes to handleConnectionError and
\* from there, with the attempts used up, to handleConnectionFailure;
\* otherwise the position of handleConnectionFailure becomes `pc`.
Subscribed(timers, priceIds, ok, pc) ==
    LET uniqueIds == SubscribeToPriceFeeds(activePriceIds, priceIds)
        stays == /\ activePriceIds' = uniqueIds
                 /\ restart' = pc
                 /\ UNCHANGED <<isRunning, checkInterval, expiredCheckInterval, listeners>>
    IN IF uniqueIds = {}
       THEN /\ eventSource' = "null"
            /\ reconnectTimers' = timers
            /\ UNCHANGED <<reconnectAttempts, signals, errors>>
            /\ stays
       ELSE IF ok
       THEN /\ eventSource' = "open"
            /\ reconnectAttempts' = 0
            /\ reconnectTimers' = timers
            /\ UNCHANGED <<signals, errors>>
            /\ stays
       ELSE /\ errors < MaxErrors
            /\ Len(timers) < MaxTimers
            /\ HandleConnectionErrorWith(timers, uniqueIds)
            /\ IF Restarts(uniqueIds)
               THEN StopCalled
               ELSE /\ eventSource' = "null"
                    /\ stays

\* refreshEvents from its query on: the query fails and nothing changes, or
\* the registry is replaced and its keys are subscribed.
Refreshed(queryOk, ok, pc) ==
    IF queryOk
    THEN /\ monitoringEvents' = EventsByFeedId(ActiveAutoResolutionEvents)
         /\ Subscribed(reconnectTimers, DOMAIN monitoringEvents', ok, pc)
    ELSE /\ restart' = pc
         /\ UNCHANGED <<monitoringEvents, activePriceIds, eventSource, reconnectAttempts,
                        reconnectTimers, signals, errors, isRunning, checkInterval,
                        expiredCheckInterval, listeners>>

\* index.ts calls start(): it awaits refreshEvents.
LifeStart ==
    /\ startPc = "new"
    /\ ~isRunning
    /\ isRunning' = TRUE
    /\ startPc' = "refresh"
    /\ UNCHANGED <<monitoringEvents, activePriceIds, eventSource, checkInterval,
                   expiredCheckInterval, feedVars, lifeVars, lifeFrame>>

\* The refreshEvents of the first start() returns; start() awaits
\* checkExpiredEvents.
LifeStartRefreshed(queryOk, ok) ==
    /\ startPc = "refresh"
    /\ startPc' = "sweep"
    /\ Refreshed(queryOk, ok, restart)
    /\ UNCHANGED <<sweeps, lifeFrame>>

\* The checkExpiredEvents of the first start() returns; start() sets the two
\* timers.
LifeStartSwept ==
    /\ startPc = "sweep"
    /\ startPc' = "done"
    /\ checkInterval' = TRUE
    /\ expiredCheckInterval' = TRUE
    /\ UNCHANGED <<monitoringEvents, activePriceIds, eventSource, isRunning, feedVars,
                   lifeVars, lifeFrame>>

\* The refresh timer calls refreshEvents.
LifeRefreshTimer(queryOk, ok) ==
    /\ checkInterval
    /\ Refreshed(queryOk, ok, restart)
    /\ UNCHANGED <<startPc, sweeps, lifeFrame>>

\* The sweep timer calls checkExpiredEvents.
LifeSweepTimer ==
    /\ expiredCheckInterval
    /\ sweeps < MaxSweeps
    /\ sweeps' = sweeps + 1
    /\ UNCHANGED <<monitoringEvents, activePriceIds, eventSource, svcVars, feedVars,
                   restart, listeners, lifeFrame>>

\* The open stream reports an error: handleConnectionError, and with the
\* attempts used up handleConnectionFailure.
LifeStreamError ==
    /\ eventSource = "open"
    /\ errors < MaxErrors
    /\ Len(reconnectTimers) < MaxTimers
    /\ HandleConnectionError(activePriceIds)
    /\ IF Restarts(activePriceIds)
       THEN StopCalled
       ELSE UNCHANGED <<activePriceIds, eventSource, isRunning, checkInterval,
                        expiredCheckInterval, restart, listeners>>
    /\ UNCHANGED <<monitoringEvents, startPc, sweeps, lifeFrame>>

\* A reconnect timer fires: subscribeToPriceFeeds with the subscription set of
\* that moment.
LifeReconnect(i, ok) ==
    /\ i \in DOMAIN reconnectTimers
    /\ Subscribed(Without(reconnectTimers, i), activePriceIds, ok, restart)
    /\ UNCHANGED <<monitoringEvents, startPc, sweeps, lifeFrame>>

\* dbClient.disconnect() returns: stop() returns and its then() calls start(),
\* which awaits refreshEvents.
StopDone ==
    /\ restart = "disconnect"
    /\ IF isRunning
       THEN /\ restart' = "done"
            /\ UNCHANGED isRunning
       ELSE /\ restart' = "refresh"
            /\ isRunning' = TRUE
    /\ UNCHANGED <<monitoringEvents, activePriceIds, eventSource, checkInterval,
                   expiredCheckInterval, startPc, feedVars, listeners, sweeps, lifeFrame>>

\* dbClient.disconnect() throws: stop() rejects and the then() of
\* handleConnectionFailure is not run.
StopFailed ==
    /\ restart = "disconnect"
    /\ restart' = "failed"
    /\ UNCHANGED <<monitoringEvents, activePriceIds, eventSource, svcVars, feedVars,
                   listeners, sweeps, lifeFrame>>

\* The refreshEvents of the second start() returns.
RestartRefreshed(queryOk, ok) ==
    /\ restart = "refresh"
    /\ Refreshed(queryOk, ok, "sweep")
    /\ UNCHANGED <<startPc, sweeps, lifeFrame>>

\* The checkExpiredEvents of the second start() returns; start() sets the two
\* timers.
RestartSwept ==
    /\ restart = "sweep"
    /\ restart' = "done"
    /\ checkInterval' = TRUE
    /\ expiredCheckInterval' = TRUE
    /\ UNCHANGED <<monitoringEvents, activePriceIds, eventSource, isRunning, startPc,
                   feedVars, listeners, sweeps, lifeFrame>>

LifeNext ==
    \/ LifeStart
    \/ \E queryOk, ok \in BOOLEAN : LifeStartRefreshed(queryOk, ok)
    \/ LifeStartSwept
    \/ \E queryOk, ok \in BOOLEAN : LifeRefreshTimer(queryOk, ok)
    \/ LifeSweepTimer
    \/ LifeStreamError
    \/ \E i \in 1..MaxTimers, ok \in BOOLEAN : LifeReconnect(i, ok)
    \/ StopDone
    \/ StopFailed
    \/ \E queryOk, ok \in BOOLEAN : RestartRefreshed(queryOk, ok)
    \/ RestartSwept

SpecLife == LifeClientInit /\ [][LifeNext]_vars

\* ------------------------------------ dispatch and shutdown on their own

\* The monitor once start() has returned with both entities OPEN and not
\* expired: the registry holds them, their feeds are subscribed, the stream is
\* open and both timers are set.
DispatchInit ==
    /\ now = 0
    /\ store \in { [ e \in Entities |->
                       [ status |-> "OPEN", winningTokenId |-> 0, resolutionHash |-> 0,
                         pythFeedId |-> IF e = 1 THEN "0xf1" ELSE f ] ] : f \in Feeds }
    /\ chain = {}
    /\ monitoringEvents = EventsByFeedId(ActiveAutoResolutionEvents)
    /\ processingEvents = {}
    /\ currentKeyIndex = 0
    /\ activePriceIds = DOMAIN monitoringEvents
    /\ eventSource = "open"
    /\ inv = [ p \in Procs |-> Idle ]
    /\ refresh = [ pc |-> "idle", events |-> <<>> ]
    /\ resolverResult = [ e \in Entities |-> "none" ]
    /\ drained = {}
    /\ inputs = 0
    /\ isRunning = TRUE
    /\ checkInterval = TRUE
    /\ expiredCheckInterval = TRUE
    /\ startPc = "done"
    /\ evalIn = NoEval
    /\ evalOut = NoOutcome
    /\ PoolInit
    /\ FeedInit
    /\ LifeInit
    /\ ShutInit

\* The stream delivers update u of feed id `id` and the listener the
\* constructor added calls handlePriceUpdate, which runs up to its first await.
Delivered(h, id, u) ==
    /\ listeners
    /\ Dispatch(h, id, u)
    /\ delivered' = Append(delivered,
                            [ feedId |-> "0x" \o id,
                              found |-> ("0x" \o id) \in DOMAIN monitoringEvents ])
    /\ UNCHANGED <<evalVars, keyVars, feedVars, lifeVars, shutdown, refreshErrors>>

\* The query threw: refreshEvents logs the error, which is counted, and
\* returns.
RefreshLogged ==
    /\ RefreshCatch
    /\ refreshErrors' = refreshErrors + 1
    /\ UNCHANGED <<evalVars, keyVars, feedVars, lifeVars, delivered, shutdown>>

\* The steps of refreshEvents, handlePriceUpdate and the pipeline.
DispatchNext ==
    \/ RefreshStart
    \/ RefreshDone
    \/ RefreshLogged
    \/ \E h \in Handlers, id \in {"f1", "f2"}, u \in Samples : Delivered(h, id, u)
    \/ \E p \in Handlers : MarkDone(p)
    \/ \E p \in Handlers : MarkFailed(p)
    \/ \E p \in Handlers : ResolverDone(p)
    \/ \E p \in Handlers, lost \in BOOLEAN : ResolverFailed(p, lost)
    \/ \E p \in Handlers : ResolverRejected(p)
    \/ \E p \in Handlers : Mark2Done(p)
    \/ \E p \in Handlers : HashDone(p)
    \/ \E p \in Handlers : StoreFailed(p)
    \/ \E p \in Handlers : NotifyDone(p)
    \/ \E p \in Handlers : NotifyFailed(p)
    \/ \E p \in Handlers : ReturnOk(p)
    \/ \E p \in Handlers : ReturnErr(p)

SpecDispatch == DispatchInit /\ [][DispatchNext]_vars

\* What the event loop runs without waiting for anything outside the process
\* but the Store and the notification: the continuations of invocation p other
\* than the return of updatePriceAndFulfill.
Continuation(p) ==
    \/ MarkDone(p)
    \/ Mark2Done(p)
    \/ HashDone(p)
    \/ NotifyDone(p)
    \/ ReturnOk(p)
    \/ ReturnErr(p)

\* The dispatch where every continuation that can run does run in the end, and
\* so does the return of the refresh query; updatePriceAndFulfill may take
\* for ever, and no timer or update has to come.
SpecDispatchFair ==
    /\ SpecDispatch
    /\ \A p \in Handlers : WF_vars(Continuation(p))
    /\ WF_vars(RefreshDone)

\* SIGTERM or SIGINT: the handler of index.ts calls stop(), which clears the
\* two intervals, closes the feed client and awaits dbClient.disconnect().
Sigterm ==
    /\ shutdown = "none"
    /\ shutdown' = "stopping"
    /\ isRunning' = FALSE
    /\ checkInterval' = FALSE
    /\ expiredCheckInterval' = FALSE
    /\ eventSource' = "null"
    /\ activePriceIds' = {}
    /\ listeners' = FALSE
    /\ UNCHANGED <<now, store, chain, monitoringEvents, processingEvents,
                   currentKeyIndex, inv, refresh, resolverResult, drained, inputs,
                   startPc, evalVars, keyVars, feedVars, restart, sweeps, delivered,
                   refreshErrors>>

\* dbClient.disconnect() returned: stop() returns.
ShutdownStopped ==
    /\ shutdown = "stopping"
    /\ shutdown' = "stopped"
    /\ UNCHANGED <<monitorVars, evalVars, keyVars, feedVars, lifeVars, delivered,
                   refreshErrors>>

\* dbClient.disconnect() threw: stop() rejects and the handler ends without
\* calling process.exit.
ShutdownFailed ==
    /\ shutdown = "stopping"
    /\ shutdown' = "failed"
    /\ UNCHANGED <<monitorVars, evalVars, keyVars, feedVars, lifeVars, delivered,
                   refreshErrors>>

\* The handler resumes after stop() and calls process.exit(0).
Exit ==
    /\ shutdown = "stopped"
    /\ shutdown' = "exited"
    /\ UNCHANGED <<monitorVars, evalVars, keyVars, feedVars, lifeVars, delivered,
                   refreshErrors>>

\* The process runs until process.exit.
ShutdownNext ==
    \/ (shutdown # "exited" /\ DispatchNext)
    \/ Sigterm
    \/ ShutdownStopped
    \/ ShutdownFailed
    \/ Exit

SpecShutdown == DispatchInit /\ [][ShutdownNext]_vars

\* ------------------------------------------------------------- the claims

\* The invocations that are in the pipeline for entity e.
InFlight(e) ==
    { p \in Procs : inv[p].pc \in PipelinePcs /\ Current(inv[p]) = e }

\* Invocation p takes a step out of the await it stands at.
Leaves(p, pc) == inv[p].pc = pc /\ inv'[p] # inv[p]

\* Entity e is in a bucket of the registry.
InRegistry(e) ==
    \E f \in DOMAIN monitoringEvents : e \in SeqToSet(monitoringEvents[f])

\* A trigger can start a new attempt for e: a price sample finds it in the
\* registry, or one of the two Store queries returns it.
Eligible(e) ==
    \/ InRegistry(e)
    \/ e \in SeqToSet(ActiveAutoResolutionEvents)
    \/ e \in SeqToSet(ExpiredAutoResolutionEvents)

\* No invocation holds e in the list it iterates, and no refresh holds it in
\* the rows it is about to install.
Quiescent(e) ==
    /\ \A p \in Procs :
          inv[p].pc # "idle" => e \notin SeqToSet(inv[p].events) \cup SeqToSet(inv[p].expired)
    /\ e \notin SeqToSet(refresh.events)

\* C1: for every entity, at any instant, at most one invocation (dispatches of
\* handlePriceUpdate and sweeps of checkExpiredEvents together) is in the
\* resolution pipeline.
C1_AtMostOnePipelineInFlight ==
    \A e \in Entities : Cardinality(InFlight(e)) <= 1

\* C2: no call of the Resolver (updatePriceAndFulfill) is made for an entity
\* for which a call has already returned successfully: a second trigger for
\* the same entity is a no-op.
C2_NoResolverCallAfterSuccess ==
    [][ \A p \in Procs :
          (inv[p].pc # "resolver" /\ inv'[p].pc = "resolver")
             => resolverResult[Current(inv'[p])] # "ok" ]_vars

\* C3: Resolved is terminal: once the Store holds an entity as RESOLVED, no
\* step changes its status or its recorded winning token.
C3_ResolvedIsTerminal ==
    [][ \A e \in Entities :
          store[e].status = "RESOLVED"
             => /\ store'[e].status = "RESOLVED"
                /\ store'[e].winningTokenId = store[e].winningTokenId ]_vars

\* C4: a pipeline attempt started for an entity that is already RESOLVED is a
\* no-op: it writes nothing to the entity's Store row, calls no Resolver and
\* raises no error.
C4_AttemptOnResolvedIsNoOp ==
    [][ \A p \in Procs :
          (inv[p].pc = "mark" /\ store[Current(inv[p])].status = "RESOLVED")
             => /\ store'[Current(inv[p])] = store[Current(inv[p])]
                /\ inv'[p].pc \notin {"resolver", "retErr"} ]_vars

\* C5: whenever the Resolver call of an attempt is pending, the Store write
\* that marks the entity RESOLVING has completed successfully in that attempt;
\* an attempt whose write failed never reaches the Resolver call.
C5_MarkedBeforeResolver ==
    \A p \in Procs : inv[p].pc = "resolver" => inv[p].marked

\* C5 witness: a dispatch and a sweep both have their Resolver call pending,
\* each after its marking write.
C5_Witness ==
    /\ \E h \in Handlers : inv[h].pc = "resolver" /\ inv[h].marked
    /\ \E s \in Sweepers : inv[s].pc = "resolver" /\ inv[s].marked

\* C6: when the marking write of an attempt fails, the attempt's claim is
\* released: the entity id is not in processingEvents afterwards, in the
\* streaming path and in the sweeper path alike.
C6_MarkFailureReleasesClaim ==
    [][ \A p \in Procs :
          (Leaves(p, "mark") /\ inv'[p].pc \notin {"resolver", "retErr"})
             => Current(inv[p]) \notin processingEvents' ]_vars

\* C7: every claim is released exactly once, by the attempt that took it: an
\* entity id is in processingEvents exactly while an invocation is in the
\* pipeline for it.
C7_ClaimHeldExactlyWhileInFlight ==
    \A e \in Entities : e \in processingEvents <=> InFlight(e) # {}

\* C8: when the Resolver call fails with a transient error, the attempt ends
\* with the entity's Store status back at OPEN and the claim released.
C8_TransientFailureReopens ==
    [][ \A p \in Procs :
          (Leaves(p, "retErr") /\ inv[p].err = "transient")
             => /\ store'[Current(inv[p])].status = "OPEN"
                /\ Current(inv[p]) \notin processingEvents' ]_vars

\* C9: an entity whose Resolver call failed and that is not resolved stays
\* eligible for retry, also after refreshes: once no invocation works on it
\* any more, it is in the registry or one of the Store queries returns it.
C9_FailedStaysEligible ==
    \A e \in Entities :
        (resolverResult[e] = "failed" /\ store[e].status # "RESOLVED" /\ Quiescent(e))
            => Eligible(e)

\* C10: when the Resolver rejects the call because the market is resolved
\* already, the attempt ends with the entity marked RESOLVED in the Store.
C10_RejectionMarksResolved ==
    [][ \A p \in Procs :
          (Leaves(p, "retErr") /\ inv[p].err = "rejected")
             => store'[Current(inv[p])].status = "RESOLVED" ]_vars

\* Some invocation is working on entity e: in the pipeline for it, or about
\* to resume after it.
WorkedOn(e) ==
    \E p \in Procs :
        /\ inv[p].pc \in PipelinePcs \cup {"retOk", "retErr"}
        /\ Current(inv[p]) = e

\* The buckets of the registry that hold entity e.
BucketsOf(e) ==
    { f \in DOMAIN monitoringEvents : e \in SeqToSet(monitoringEvents[f]) }

\* C11: an entity is in at most one bucket of the registry, the one of its
\* feed; and an entity whose Store status is not OPEN, once no invocation is
\* working on it any more, is in no bucket.
C11_RegistryHoldsOpenEntitiesOnly ==
    \A e \in Entities :
        /\ BucketsOf(e) \subseteq {store[e].pythFeedId}
        /\ (store[e].status # "OPEN" /\ ~WorkedOn(e)) => BucketsOf(e) = {}

\* C12: the feed keys the Feed Client is subscribed to are exactly the keys
\* that have a bucket in the registry, after every refresh and every removal.
C12_SubscriptionsEqualRegistryKeys ==
    activePriceIds = DOMAIN monitoringEvents

\* The price of the evaluator's input and its trigger price, both in tenths.
PriceTenths == evalIn.price * Pow10(evalIn.expo + 1)
TriggerTenths == evalIn.triggerPrice * 10

\* C14: for an event that has not expired, the evaluator fires the threshold
\* outcome YES exactly when the operator is GT and the price is at least the
\* trigger price, or the operator is LT and the price is at most the trigger
\* price; EQ never fires.
C14_ThresholdInclusive ==
    (evalOut # NoOutcome /\ evalIn.hasFields /\ evalIn.end_time > evalIn.currentTime)
        => (evalOut.outcome = "YES"
              <=> \/ evalIn.operator = "GT" /\ PriceTenths >= TriggerTenths
                  \/ evalIn.operator = "LT" /\ PriceTenths <= TriggerTenths)

\* C14 witness: a price equal to the trigger price (20 * 10^-1 against 2) has
\* fired YES for an unexpired GT event.
C14_Witness ==
    /\ evalOut.outcome = "YES"
    /\ evalIn.operator = "GT"
    /\ evalIn.end_time > evalIn.currentTime
    /\ evalIn.price = 20 /\ evalIn.expo = -1 /\ evalIn.triggerPrice = 2

\* C15: for an event whose end_time is at or before the time of the dispatch,
\* the evaluator fires the expiry outcome NO with winning token 2*id+1,
\* whatever the price: never the threshold outcome.
C15_ExpiryTakesPrecedence ==
    (evalOut # NoOutcome /\ evalIn.hasFields /\ evalIn.end_time <= evalIn.currentTime)
        => /\ evalOut.outcome = "NO"
           /\ evalOut.winningTokenId = 2 * evalIn.id + 1

\* C15 witness: an event expired exactly at the dispatch time whose price
\* condition is true as well has fired NO.
C15_Witness ==
    /\ evalOut.outcome = "NO"
    /\ evalIn.end_time = evalIn.currentTime
    /\ evalIn.operator = "LT"
    /\ PriceTenths <= TriggerTenths

\* The size of the pool of contract clients.
PoolSize == Len(contractClients)

\* C16: the calls of getNextKeyIndex, in the order they were made by whichever
\* invocation, get the slots in cyclic order: each call gets the slot after
\* the one before it, and any PoolSize consecutive calls get every slot
\* 0..PoolSize-1 exactly once.
C16_RoundRobinPasses ==
    constructed = "running" =>
        /\ \A i \in 1..(Len(returned) - 1) :
               returned[i + 1].keyIndex = (returned[i].keyIndex + 1) % PoolSize
        /\ \A i \in 1..Len(returned) :
               i + PoolSize - 1 <= Len(returned)
                   => { returned[j].keyIndex : j \in i..(i + PoolSize - 1) }
                          = 0..(PoolSize - 1)

\* C16 witness: with two clients, more than a pass of calls was made, by a
\* handler and by the sweeper while the other was between its claim and the
\* end of its resolution.
C16_Witness ==
    /\ PoolSize = 2
    /\ Len(returned) >= 3
    /\ \E i \in 1..(Len(returned) - 1) :
           /\ returned[i].who \in Handlers
           /\ returned[i + 1].who \in Sweepers
           /\ callers[returned[i].who] = "resolving"

\* C17: the constructor throws exactly when no PRIVATE_KEY_i is set; a running
\* monitor has at least one client, its cursor is a slot of the pool, and
\* every slot getNextKeyIndex returned has a client.
C17_PoolNeverEmpty ==
    /\ constructed = "threw" <=> (constructed # "new" /\ keyEnv = {})
    /\ constructed = "threw" => returned = << >>
    /\ constructed = "running" =>
           /\ PoolSize >= 1
           /\ currentKeyIndex \in 0..(PoolSize - 1)
           /\ \A i \in 1..Len(returned) :
                  returned[i].keyIndex + 1 \in DOMAIN contractClients

\* C17 witness: the constructor has thrown for an environment without keys.
C17_Witness == constructed = "threw" /\ keyEnv = {}

\* C13: once every subscribe call has returned, a stream is open only for a
\* non-empty subscription set and with exactly its keys: after the unsubscribe
\* that empties the set no stream is open, and after any other unsubscribe the
\* open stream has the remaining keys only.
C13_UnsubscribedStreamStaysClosed ==
    (eventSource = "open" /\ pendingStreams = << >>)
        => (activePriceIds # {} /\ streamIds = activePriceIds)

\* A connection error is handled in this step.
ErrorHandled == errors' = errors + 1

\* getPriceUpdatesStream returned a stream in this step.
Connected ==
    /\ Len(pendingStreams') < Len(pendingStreams)
    /\ errors' = errors
    /\ eventSource' = "open"

\* C18: an error handled after k attempts, k below maxReconnectAttempts and
\* the subscription set not empty, sets a reconnect timer of
\* reconnectInterval * 2^k ms and makes the attempts k + 1; a stream that
\* opens makes the attempts 0.
C18_BackoffDoublesAndResets ==
    [][ /\ (ErrorHandled /\ activePriceIds # {} /\ reconnectAttempts < maxReconnectAttempts)
            => /\ reconnectTimers' =
                      Append(reconnectTimers, reconnectInterval * (2 ^ reconnectAttempts))
               /\ reconnectAttempts' = reconnectAttempts + 1
        /\ Connected => reconnectAttempts' = 0
      ]_vars

\* C18 witness: the third failure in a row set a timer of four times
\* reconnectInterval, and no stream is open.
C18_Witness ==
    /\ reconnectAttempts = 3
    /\ reconnectTimers # << >>
    /\ reconnectTimers[Len(reconnectTimers)] = 20000
    /\ eventSource = "null"

\* C19: while the subscription set is not empty, every connection error that
\* is handled either sets exactly one reconnect timer and emits nothing, or,
\* with maxReconnectAttempts attempts used up, emits connectionFailed once
\* and sets no timer.
C19_ErrorsNeverDropped ==
    [][ (ErrorHandled /\ activePriceIds # {})
            => \/ /\ reconnectAttempts < maxReconnectAttempts
                  /\ Len(reconnectTimers') = Len(reconnectTimers) + 1
                  /\ signals' = signals
               \/ /\ reconnectAttempts >= maxReconnectAttempts
                  /\ signals' = signals + 1
                  /\ reconnectTimers' = reconnectTimers
      ]_vars

\* C19 witness: connectionFailed was emitted after maxReconnectAttempts
\* attempts, with feeds still subscribed.
C19_Witness ==
    /\ signals >= 1
    /\ reconnectAttempts = maxReconnectAttempts
    /\ activePriceIds # {}

\* C20: once the handling of connectionFailed is over (stop() has settled and
\* the start() after it, if it was called, has returned, as has the start()
\* of index.ts) the sweep timer is set.
C20_SweepTimerSurvivesRestart ==
    (restart \in {"failed", "done"} /\ startPc = "done") => expiredCheckInterval

\* C21: an entity that is RESOLVED in the Store has its outcome recorded: the
\* sweeper leaves an expired entity RESOLVED only with the winning token of
\* NO, 2*id+1 (a handler may have recorded 2*id before the expiry).
C21_SweeperRecordsExpiryOutcome ==
    \A e \in Entities :
        store[e].status = "RESOLVED"
            => store[e].winningTokenId \in {WinningToken(e, "YES"), WinningToken(e, "NO")}

\* C22: an entity is RESOLVED in the Store only after an updatePriceAndFulfill
\* call for it has returned a transaction hash.
C22_ResolvedOnlyAfterConfirmation ==
    \A e \in Entities :
        store[e].status = "RESOLVED" => resolverResult[e] = "ok"

\* C23: once the pipeline has persisted the hash that updatePriceAndFulfill
\* returned and marked the entity RESOLVED, and the invocation that ran it has
\* moved on, the entity is in no bucket of the registry, whichever of
\* handlePriceUpdate and checkExpiredEvents ran the pipeline.
C23_SuccessPersistsAndUnregisters ==
    \A e \in Entities :
        (resolverResult[e] = "ok" /\ ~WorkedOn(e)
            /\ store[e].status = "RESOLVED" /\ store[e].resolutionHash = TxHash(e))
            => ~InRegistry(e)

C25_FailureDoesNotAbortBatch ==
    [][ \A p \in Procs :
          Leaves(p, "retErr") =>
              LET r == inv[p]
                  pe == processingEvents \ {Current(r)}
                  j == IF p \in Handlers
                       THEN FirstFiring(r.events, r.idx + 1, pe,
                                        AdjustedPrice(r.update), r.currentTime)
                       ELSE FirstUnclaimed(r.events, r.idx + 1, pe)
              IN j # 0 => /\ inv'[p].pc = "mark"
                          /\ inv'[p].events = r.events
                          /\ inv'[p].idx = j
      ]_vars

\* A step of refreshEvents in the feed client's specification: the only step
\* that leaves the stream closed without touching the Store, the reconnect
\* timers or the error count.
RefreshStep ==
    /\ <<monitoringEvents, pendingStreams, activePriceIds, eventSource, streamIds>>'
          # <<monitoringEvents, pendingStreams, activePriceIds, eventSource, streamIds>>
    /\ store' = store
    /\ reconnectTimers' = reconnectTimers
    /\ errors' = errors
    /\ eventSource' = "null"

\* C29: a refresh whose query returned replaces the registry.  Afterwards
\* every entity of the rows returned is in the bucket of its own feed and in
\* no other, every other entity is in no bucket, no bucket is empty, and, when
\* there is a bucket, exactly one getPriceUpdatesStream call was added, which
\* carries the keys of all buckets.
C29_RefreshReplacesRegistry ==
    [][ RefreshStep =>
          /\ \A e \in Entities :
                BucketsOf(e)' = IF e \in SeqToSet(ActiveAutoResolutionEvents)
                                THEN {store[e].pythFeedId} ELSE {}
          /\ \A f \in DOMAIN monitoringEvents' :
                /\ monitoringEvents'[f] # << >>
                /\ Cardinality(SeqToSet(monitoringEvents'[f])) = Len(monitoringEvents'[f])
          /\ DOMAIN monitoringEvents' # {} =>
                /\ Len(pendingStreams') = Len(pendingStreams) + 1
                /\ SubSeq(pendingStreams', 1, Len(pendingStreams)) = pendingStreams
                /\ DOMAIN monitoringEvents' \subseteq pendingStreams'[Len(pendingStreams')]
          /\ DOMAIN monitoringEvents' \subseteq activePriceIds'
      ]_vars

\* C29 witness: a refresh has dropped an entity that was in the registry, so
\* that one entity is RESOLVING in no bucket while the other is in the bucket
\* of its feed and the subscribe call with that key is awaited.
C29_Witness ==
    \E e, d \in Entities :
        /\ store[d].status = "RESOLVING"
        /\ BucketsOf(d) = {}
        /\ store[e].status = "OPEN"
        /\ BucketsOf(e) = {store[e].pythFeedId}
        /\ pendingStreams # << >>
        /\ store[e].pythFeedId \in pendingStreams[Len(pendingStreams)]

\* C27: when stop() completes (dbClient.disconnect() has returned), the stream
\* is closed, no reconnect timer is pending and neither the refresh timer nor
\* the sweep timer is set, whatever was in progress when stop() was called.
C27_StopLeavesNothingRunning ==
    [][ (restart = "disconnect" /\ restart' \in {"refresh", "done"})
          => /\ eventSource' = "null"
             /\ reconnectTimers' = << >>
             /\ ~checkInterval'
             /\ ~expiredCheckInterval'
      ]_vars

\* C30: an update whose feed id has no events in the registry is a no-op.  The
\* step on which handlePriceUpdate takes it leaves the registry, the in-flight
\* set, the cursor of the key pool and the Store as they are, starts no
\* pipeline and sends no contract call.
C30_UpdateWithoutBucketIsNoOp ==
    [][ ( /\ Len(delivered') = Len(delivered) + 1
          /\ delivered'[Len(delivered')].feedId \notin DOMAIN monitoringEvents )
          => /\ UNCHANGED <<monitoringEvents, processingEvents, currentKeyIndex, store>>
             /\ UNCHANGED <<inv, chain, resolverResult, refresh>>
      ]_vars

\* C30 witness: handlePriceUpdate took an update of a subscribed feed for
\* which the registry had no events, while an entity of that feed was
\* RESOLVING and unclaimed.
C30_Witness ==
    \E i \in DOMAIN delivered : \E e \in Entities :
        /\ ~delivered[i].found
        /\ i = Len(delivered)
        /\ store[e].pythFeedId = delivered[i].feedId
        /\ store[e].status = "RESOLVING"
        /\ e \notin processingEvents
        /\ ~InRegistry(e)

\* C28: the shutdown does not complete while a contract call is pending: when
\* process.exit has run, no invocation is awaiting updatePriceAndFulfill.
C28_ExitWaitsForPendingCalls ==
    shutdown = "exited" => \A p \in Procs : inv[p].pc # "resolver"

\* Invocation h awaits updatePriceAndFulfill for one entity while entity e,
\* further on in the list it iterates, is unclaimed and fires on the same
\* update.
FiredBehind(h, e) ==
    /\ inv[h].pc = "resolver"
    /\ e \notin processingEvents
    /\ \E j \in (inv[h].idx + 1)..Len(inv[h].events) :
          /\ inv[h].events[j] = e
          /\ OutcomeOf(e, AdjustedPrice(inv[h].update), inv[h].currentTime) \in {"NO", "YES"}

C31_FailedRefreshChangesNothing ==
    [][ refreshErrors' # refreshErrors =>
          /\ refreshErrors' = refreshErrors + 1
          /\ refresh.pc = "query" /\ refresh'.pc = "idle"
          /\ UNCHANGED <<monitoringEvents, activePriceIds, eventSource, store>>
          /\ UNCHANGED <<inv, processingEvents, isRunning, checkInterval,
                         expiredCheckInterval>>
          /\ checkInterval'
      ]_vars

\* C31 witness: a refresh has failed on its query and an entity of the
\* registry is RESOLVING: it is still in its bucket, its feed is still
\* subscribed and the timer is set.
C31_Witness ==
    /\ refreshErrors >= 1
    /\ refresh.pc = "idle"
    /\ checkInterval
    /\ \E e \in Entities :
          /\ store[e].status = "RESOLVING"
          /\ InRegistry(e)
          /\ store[e].pythFeedId \in activePriceIds

\* Handler h, resuming after the pipeline of one entity, takes entity e of the
\* same list as the next one.
NextTurn(h, e) ==
    /\ inv[h].pc \in {"retOk", "retErr"}
    /\ inv'[h].pc = "mark"
    /\ inv'[h].events = inv[h].events
    /\ inv'[h].idx > inv[h].idx
    /\ Current(inv'[h]) = e

\* C32: within one dispatch the pipeline is started for an entity only if, at
\* the moment its turn comes, the entity is in the bucket of the registry and
\* OPEN in the Store.
C32_TurnChecksRegistryAndStatus ==
    [][ \A h \in Handlers : \A e \in Entities :
          NextTurn(h, e) =>
              /\ inv[h].feedId \in DOMAIN monitoringEvents'
              /\ e \in SeqToSet(monitoringEvents'[inv[h].feedId])
              /\ store[e].status = "OPEN"
      ]_vars

\* C33: once handleConnectionFailure has run stop() and start() to the end,
\* the listeners the constructor added to the feed client (priceUpdate and
\* connectionFailed) are attached.
C33_ListenersSurviveRestart ==
    restart = "done" => listeners

\* C34: the feed client holds at most one open stream.  When
\* getPriceUpdatesStream returns a stream and subscribeToPriceFeeds stores it
\* in eventSource, no other stream is open and stored there: a stream that is
\* replaced without being closed stays open and delivers its updates too.
C34_AtMostOneOpenStream ==
    [][ Connected => eventSource = "null" ]_vars

\* Invocation p is in the pipeline for entity e, holds the claim on it and
\* takes a step.
WritesUnderClaim(p, e) ==
    /\ inv[p].pc \in PipelinePcs
    /\ Current(inv[p]) = e
    /\ e \in processingEvents
    /\ inv'[p] # inv[p]

\* C35: every write that changes the row of an entity in the Store is made by
\* an invocation that is in the pipeline for that entity and holds the claim
\* on it.
C35_WritesOnlyUnderClaim ==
    [][ \A e \in Entities :
          store'[e] # store[e] => \E p \in Procs : WritesUnderClaim(p, e)
      ]_vars

\* A start() reaches its two setInterval calls in this step.
SetsTimers ==
    \/ startPc = "sweep" /\ startPc' = "done"
    \/ restart = "sweep" /\ restart' = "done"

\* C36: at most one refresh timer and one sweep timer exist.  A start() that
\* sets the two intervals finds checkInterval and expiredCheckInterval
\* unset, so that no interval is replaced in these fields while it runs; and
\* the intervals are set by such a step only.
C36_AtMostOneTimerOfEachKind ==
    [][ /\ SetsTimers => (~checkInterval /\ ~expiredCheckInterval)
        /\ ((checkInterval' /\ ~checkInterval) \/ (expiredCheckInterval' /\ ~expiredCheckInterval))
              => SetsTimers
      ]_vars

\* C37: at most one reconnect timer is pending, and reconnectAttempts stays
\* between 0 and maxReconnectAttempts.
C37_OneReconnectTimer ==
    /\ Len(reconnectTimers) <= 1
    /\ reconnectAttempts >= 0
    /\ reconnectAttempts <= maxReconnectAttempts

\* C38: in every attempt the token written after updatePriceAndFulfill
\* returned is the one written when the attempt marked the entity RESOLVING:
\* 2*id when the outcome of the attempt is YES, 2*id+1 when it is NO, the
\* outcome being the same through the attempt; and no two pairs of entity and
\* outcome have the same token.
C38_PersistedTokenIsTentativeToken ==
    [][ /\ \A p \in Procs :
              (inv'[p] # inv[p] /\ inv[p].pc \in PipelinePcs) =>
                  LET e == Current(inv[p])
                      token == IF inv[p].outcome = "YES" THEN 2 * e ELSE 2 * e + 1
                  IN /\ inv[p].outcome \in {"YES", "NO"}
                     /\ (inv[p].pc = "mark" /\ inv'[p].marked)
                           => store'[e].winningTokenId = token
                     /\ (inv[p].pc = "mark2" /\ inv'[p].pc = "hash")
                           => (inv[p].marked /\ store'[e].winningTokenId = token)
                     /\ (inv'[p].pc \in PipelinePcs /\ inv'[p].events = inv[p].events
                            /\ inv'[p].idx = inv[p].idx)
                           => inv'[p].outcome = inv[p].outcome
        /\ \A e1, e2 \in Entities : \A o1, o2 \in {"YES", "NO"} :
              WinningToken(e1, o1) = WinningToken(e2, o2) => (e1 = e2 /\ o1 = o2)
      ]_vars

\* C38 witness: an attempt with outcome NO has written its token a second
\* time, after the contract call, while the other entity holds the token of a
\* YES.
C38_Witness ==
    \E p \in Procs : \E e \in Entities :
        /\ inv[p].pc = "hash"
        /\ inv[p].outcome = "NO"
        /\ store[Current(inv[p])].winningTokenId = 2 * Current(inv[p]) + 1
        /\ e # Current(inv[p])
        /\ store[e].winningTokenId = 2 * e

\* C39: every key of monitoringEvents maps to a list that is not empty and
\* holds no entity twice, and removing an entity from a bucket it is not in,
\* or from a feed that has no bucket, leaves the registry as it is.
C39_BucketsNonEmptyAndDistinct ==
    /\ \A f \in DOMAIN monitoringEvents :
          /\ monitoringEvents[f] # << >>
          /\ Cardinality(SeqToSet(monitoringEvents[f])) = Len(monitoringEvents[f])
    /\ \A f \in Feeds : \A e \in Entities :
          (f \notin DOMAIN monitoringEvents \/ e \notin SeqToSet(monitoringEvents[f]))
              => RemoveEventFromMonitoring(monitoringEvents, f, e) = monitoringEvents

\* C39 witness: with no refresh since start(), handlePriceUpdate has resolved
\* the only entity of a bucket and removed it: the key of its feed is gone
\* and the other bucket is there.
C39_Witness ==
    /\ inputs = 1
    /\ Len(delivered) = 1
    /\ \A p \in Procs : inv[p].pc = "idle"
    /\ DOMAIN monitoringEvents # {}
    /\ \E e \in Entities :
          /\ store[e].status = "RESOLVED"
          /\ store[e].pythFeedId = delivered[1].feedId
          /\ store[e].pythFeedId \notin DOMAIN monitoringEvents

====
